---- MODULE Spec2Model ----
(***************************************************************************)
(* Model of the spaced-repetition core of app.py (SQLite store, Streamlit  *)
(* sessions).                                                              *)
(*                                                                         *)
(* Store:    users, questions (+ AUTOINCREMENT counter), progress, today.  *)
(* Sessions: st.session_state of each browser session on the evaluation    *)
(*           page, and the position (pc) of its running script.  A script  *)
(*           run is cut at the SQL statements that talk to the store:      *)
(*           every statement is atomic (autocommit), but statements of     *)
(*           different sessions interleave, since get_db_conn opens a new  *)
(*           connection per call and no transaction spans two statements.  *)
(* Difficulty strings are written without accents: facil, medio, dificil.  *)
(***************************************************************************)
EXTENDS Integers, FiniteSets, Sequences, TLC

VARIABLES
    users,                  \* table users: username -> role
    questions,              \* table questions: the ids present
    next_id,                \* sqlite_sequence of questions (AUTOINCREMENT)
    progress,               \* table progress: a set of rows
    today,                  \* datetime.date.today(), in days
    current_user,           \* st.session_state.current_user of a session
    eval_state,             \* st.session_state.eval_state
    current_question_id,    \* st.session_state.current_question_id
    current_question_data,  \* id held in st.session_state.current_question_data
    pc,                     \* where the script run of a session stands
    event,                  \* the widget event the running script answers
    local,                  \* locals of an update_srs call between statements
    call                    \* the core call made by the last step, if any:
                            \* its arguments, what it read and what it returned

store == <<users, questions, next_id, progress, today>>
session == <<current_user, eval_state, current_question_id,
             current_question_data, pc, event, local>>
vars == <<users, questions, next_id, progress, today,
          current_user, eval_state, current_question_id,
          current_question_data, pc, event, local, call>>

----------------------------------------------------------------------------
(* Bounds of the model *)

\* highest question id the AUTOINCREMENT counter hands out
MaxQuestionId == 2
\* last calendar day (days are counted from 0)
MaxDay == 1
\* answers recorded or in flight over the whole store
MaxReviews == 2

----------------------------------------------------------------------------
(* Values *)

None == 0
NoUser == "<none>"
ADMIN_USER_DEFAULT == "admin"
UserNames == {"admin", "ana"}
Sessions == {"s1", "s2"}
QuestionIds == 1..MaxQuestionId
Days == 0..MaxDay
ValidDifficulties == {"dificil", "medio", "facil"}
AnyDifficulty == ValidDifficulties \cup {"otro"}

\* sqlite3.connect without "PRAGMA foreign_keys = ON": SQLite leaves foreign
\* key enforcement off, so REFERENCES / ON DELETE CASCADE clauses are inert.
foreign_keys == FALSE

\* cursor.fetchone() of an empty result
NoRow == [username |-> NoUser, question_id |-> None, due_date |-> 0,
          interval |-> 0, aciertos |-> 0, fallos |-> 0]

NoLocal == [progress |-> NoRow, today |-> 0]

NoCall == [op |-> "-", session |-> "-", username |-> NoUser,
           question_id |-> None, practice |-> FALSE, difficulty |-> "-",
           result |-> None, read |-> NoRow, persisted |-> NoRow,
           after |-> NoRow, today |-> 0]

----------------------------------------------------------------------------
(* The store: queries *)

\* SELECT * FROM progress WHERE username = ? AND question_id = ?
SelectProgress(username, question_id) ==
    LET rows == {r \in progress : r.username = username
                                  /\ r.question_id = question_id}
    IN IF rows = {} THEN NoRow ELSE CHOOSE r \in rows : TRUE

\* variant: the due query reads progress alone, without the JOIN
DueQuestionsNoJoin(username, day) ==
    {p.question_id : p \in {r \in progress : /\ r.username = username
                                              /\ r.due_date <= day}}

\* variant: the due query without its date condition
DueQuestionsAnyDate(username, day) ==
    {q \in questions : \E p \in progress : /\ p.question_id = q
                                           /\ p.username = username}

\* SELECT q.id FROM questions q JOIN progress p ON q.id = p.question_id
\* WHERE p.username = ? AND p.due_date <= ?
DueQuestions(username, day) ==
    {q \in questions : \E p \in progress : /\ p.question_id = q
                                           /\ p.username = username
                                           /\ p.due_date <= day}

\* SELECT q.id FROM questions q LEFT JOIN progress p
\*   ON q.id = p.question_id AND p.username = ? WHERE p.question_id IS NULL
NewQuestions(username) ==
    {q \in questions : ~ \E p \in progress : /\ p.question_id = q
                                             /\ p.username = username}

\* ORDER BY RANDOM() LIMIT 1 ; fetchone() ; row['id'] if row else None
RandomRow(ids) == IF ids = {} THEN {None} ELSE ids

\* variant: practice mode draws from the questions without a record only
get_next_question_unseen_practice(username, practice_mode) ==
    IF practice_mode
    THEN RandomRow(NewQuestions(username))
    ELSE IF DueQuestions(username, today) # {}
         THEN RandomRow(DueQuestions(username, today))
         ELSE RandomRow(NewQuestions(username))

\* The values get_next_question_for_user can return in the current store.
get_next_question_for_user(username, practice_mode) ==
    IF practice_mode
    THEN RandomRow(questions)
    ELSE IF DueQuestions(username, today) # {}
         THEN RandomRow(DueQuestions(username, today))
         ELSE RandomRow(NewQuestions(username))

----------------------------------------------------------------------------
(* The store: update_srs *)

\* variant: every answer starts from the first-review state
LoadedStateFixedBase(row) ==
    [interval |-> 1, aciertos |-> 0, fallos |-> 0]

\* if progress: interval, aciertos, fallos = row ... else: 1, 0, 0
LoadedState(row) ==
    IF row # NoRow
    THEN [interval |-> row.interval, aciertos |-> row.aciertos,
          fallos |-> row.fallos]
    ELSE [interval |-> 1, aciertos |-> 0, fallos |-> 0]

\* variant: the hard branch resets the interval to zero
ApplyDifficultyHardZero(st, difficulty) ==
    IF difficulty = "facil"
    THEN [st EXCEPT !.interval = st.interval * 2 + 7,
                    !.aciertos = st.aciertos + 1]
    ELSE IF difficulty = "medio"
    THEN [st EXCEPT !.interval = st.interval + 3,
                    !.aciertos = st.aciertos + 1]
    ELSE IF difficulty = "dificil"
    THEN [st EXCEPT !.interval = 0, !.fallos = st.fallos + 1]
    ELSE st

\* variant: the easy branch without the doubling
ApplyDifficultyNoDoubling(st, difficulty) ==
    IF difficulty = "facil"
    THEN [st EXCEPT !.interval = st.interval + 7,
                    !.aciertos = st.aciertos + 1]
    ELSE IF difficulty = "medio"
    THEN [st EXCEPT !.interval = st.interval + 3,
                    !.aciertos = st.aciertos + 1]
    ELSE IF difficulty = "dificil"
    THEN [st EXCEPT !.interval = 1, !.fallos = st.fallos + 1]
    ELSE st

\* the if / elif / elif chain on difficulty; no else branch
ApplyDifficulty(st, difficulty) ==
    IF difficulty = "facil"
    THEN [st EXCEPT !.interval = st.interval * 2 + 7,
                    !.aciertos = st.aciertos + 1]
    ELSE IF difficulty = "medio"
    THEN [st EXCEPT !.interval = st.interval + 3,
                    !.aciertos = st.aciertos + 1]
    ELSE IF difficulty = "dificil"
    THEN [st EXCEPT !.interval = 1, !.fallos = st.fallos + 1]
    ELSE st

\* variant: the due date without the interval added
NewRowDueToday(username, question_id, row, difficulty, day) ==
    LET st == ApplyDifficulty(LoadedState(row), difficulty)
    IN [username |-> username, question_id |-> question_id,
        due_date |-> day, interval |-> st.interval,
        aciertos |-> st.aciertos, fallos |-> st.fallos]

\* the tuple bound to the INSERT: new_due_date = today + timedelta(interval)
NewRow(username, question_id, row, difficulty, day) ==
    LET st == ApplyDifficulty(LoadedState(row), difficulty)
    IN [username |-> username, question_id |-> question_id,
        due_date |-> day + st.interval, interval |-> st.interval,
        aciertos |-> st.aciertos, fallos |-> st.fallos]

\* variant: a plain INSERT on a table without the primary key
UpsertPlainInsert(rows, new) == rows \cup {new}

\* variant: the conflict target is the question id alone
UpsertByQuestion(rows, new) ==
    {r \in rows : r.question_id # new.question_id} \cup {new}

\* INSERT INTO progress ... ON CONFLICT(username, question_id) DO UPDATE SET
\* (PRIMARY KEY (username, question_id)); no foreign key check when off
Upsert(rows, new) ==
    {r \in rows : ~ (r.username = new.username
                     /\ r.question_id = new.question_id)} \cup {new}

\* Size of the store for the bound MaxReviews: the answers recorded in it
\* (a row without any counts as one) and the update_srs calls under way.
RECURSIVE SumReviews(_)
SumReviews(rows) ==
    IF rows = {} THEN 0
    ELSE LET r == CHOOSE x \in rows : TRUE
             n == r.aciertos + r.fallos
         IN (IF n = 0 THEN 1 ELSE n) + SumReviews(rows \ {r})

InFlight == Cardinality({s \in Sessions : pc[s] = "write"})

----------------------------------------------------------------------------
Init ==
    /\ users = [u \in {ADMIN_USER_DEFAULT} |-> "admin"]
    /\ questions = {}
    /\ next_id = 1
    /\ progress = {}
    /\ today = 0
    /\ current_user = [s \in Sessions |-> NoUser]
    /\ eval_state = [s \in Sessions |-> "showing_question"]
    /\ current_question_id = [s \in Sessions |-> None]
    /\ current_question_data = [s \in Sessions |-> None]
    /\ pc = [s \in Sessions |-> "idle"]
    /\ event = [s \in Sessions |-> "-"]
    /\ local = [s \in Sessions |-> NoLocal]
    /\ call = NoCall

----------------------------------------------------------------------------
(* Store operations issued from the other pages of the application         *)
(* (registration form, create page, manage page, admin panel).  They are   *)
(* single-statement handlers of whichever session is on that page.         *)

\* show_login_page, register_form: the name "admin" is refused, then the
\* INSERT with role 'user'; a duplicate raises IntegrityError, refused too
Register(u) ==
    IF u = "admin"
    THEN /\ call' = [NoCall EXCEPT !.op = "register", !.username = u]
         /\ UNCHANGED <<store, session>>
    ELSE IF u \in DOMAIN users
    THEN /\ call' = [NoCall EXCEPT !.op = "register", !.username = u]
         /\ UNCHANGED <<store, session>>
    ELSE /\ users' = (u :> "user") @@ users
         /\ call' = [NoCall EXCEPT !.op = "register", !.username = u,
                                   !.result = 1]
         /\ UNCHANGED <<questions, next_id, progress, today, session>>

\* variant: the deletion without the guard on 'admin'
delete_user_from_db_unguarded(u) ==
    /\ progress' = {r \in progress : r.username # u}
    /\ users' = [x \in DOMAIN users \ {u} |-> users[x]]
    /\ call' = [NoCall EXCEPT !.op = "delete_user", !.username = u,
                              !.result = 1]
    /\ UNCHANGED <<questions, next_id, today, session>>

\* delete_user_from_db(username)
delete_user_from_db(u) ==
    IF u = "admin"
    THEN /\ call' = [NoCall EXCEPT !.op = "delete_user", !.username = u]
         /\ UNCHANGED <<store, session>>
    ELSE /\ progress' = {r \in progress : r.username # u}
         /\ users' = [x \in DOMAIN users \ {u} |-> users[x]]
         /\ call' = [NoCall EXCEPT !.op = "delete_user", !.username = u,
                                   !.result = 1]
         /\ UNCHANGED <<questions, next_id, today, session>>

\* show_admin_panel: the button exists for every listed user but 'admin'
DeleteUser(u) ==
    /\ u \in DOMAIN users
    /\ u # "admin"
    /\ delete_user_from_db(u)

\* show_create_page: INSERT INTO questions, id from AUTOINCREMENT
CreateQuestion ==
    /\ next_id <= MaxQuestionId
    /\ questions' = questions \cup {next_id}
    /\ next_id' = next_id + 1
    /\ call' = NoCall
    /\ UNCHANGED <<users, progress, today, session>>

\* show_manage_questions_page: DELETE FROM questions WHERE id = ?
\* progress.question_id ... ON DELETE CASCADE acts only with foreign keys on
DeleteQuestion(q) ==
    /\ q \in questions
    /\ questions' = questions \ {q}
    /\ progress' = IF foreign_keys
                   THEN {r \in progress : r.question_id # q}
                   ELSE progress
    /\ call' = [NoCall EXCEPT !.op = "delete_question", !.question_id = q]
    /\ UNCHANGED <<users, next_id, today, session>>

\* datetime.date.today() moves on
Tick ==
    /\ today < MaxDay
    /\ today' = today + 1
    /\ call' = NoCall
    /\ UNCHANGED <<users, questions, next_id, progress, session>>

----------------------------------------------------------------------------
(* Sessions *)

\* variant: the reset keeps the current question id
reset_evaluation_state_keep_id(s) ==
    /\ eval_state' = [eval_state EXCEPT ![s] = "showing_question"]
    /\ current_question_data' = [current_question_data EXCEPT ![s] = None]
    /\ UNCHANGED current_question_id

\* reset_evaluation_state(), followed by st.rerun()
reset_evaluation_state(s) ==
    /\ eval_state' = [eval_state EXCEPT ![s] = "showing_question"]
    /\ current_question_id' = [current_question_id EXCEPT ![s] = None]
    /\ current_question_data' = [current_question_data EXCEPT ![s] = None]

\* show_login_page, login_form (the password is taken to be right)
Login(s, u) ==
    /\ current_user[s] = NoUser
    /\ pc[s] = "idle"
    /\ u \in DOMAIN users
    /\ current_user' = [current_user EXCEPT ![s] = u]
    /\ pc' = [pc EXCEPT ![s] = "select"]
    /\ call' = NoCall
    /\ UNCHANGED <<store, eval_state, current_question_id,
                   current_question_data, event, local>>

\* main, "Cerrar Sesion": every key of st.session_state is deleted
Logout(s) ==
    /\ current_user[s] # NoUser
    /\ pc[s] = "idle"
    /\ current_user' = [current_user EXCEPT ![s] = NoUser]
    /\ reset_evaluation_state(s)
    /\ call' = NoCall
    /\ UNCHANGED <<store, pc, event, local>>

\* main, sidebar "Iniciar Evaluacion": reset_evaluation_state(); st.rerun()
NavEvaluacion(s) ==
    /\ current_user[s] # NoUser
    /\ pc[s] = "idle"
    /\ reset_evaluation_state(s)
    /\ pc' = [pc EXCEPT ![s] = "select"]
    /\ call' = NoCall
    /\ UNCHANGED <<store, current_user, event, local>>

\* show_evaluation_page, caught-up branch: the practice button is pressed;
\* the script reruns from the top
ClickPractice(s) ==
    /\ current_user[s] # NoUser
    /\ pc[s] = "idle"
    /\ eval_state[s] = "showing_question"
    /\ current_question_id[s] = None
    /\ event' = [event EXCEPT ![s] = "practice"]
    /\ pc' = [pc EXCEPT ![s] = "select"]
    /\ call' = NoCall
    /\ UNCHANGED <<store, current_user, eval_state, current_question_id,
                   current_question_data, local>>

\* variant: the scheduler marks the question it hands out as seen
SelectMarking(s) ==
    /\ pc[s] = "select"
    /\ \E q \in get_next_question_for_user(current_user[s], FALSE) :
         /\ current_question_id' = [current_question_id EXCEPT ![s] = q]
         /\ pc' = [pc EXCEPT ![s] =
                      IF q # None THEN "load"
                      ELSE IF event[s] = "practice" THEN "practice"
                      ELSE "idle"]
         /\ progress' =
              IF q # None /\ SelectProgress(current_user[s], q) = NoRow
              THEN progress \cup {[username |-> current_user[s],
                                   question_id |-> q, due_date |-> today,
                                   interval |-> 1, aciertos |-> 0,
                                   fallos |-> 0]}
              ELSE progress
         /\ call' = [NoCall EXCEPT !.op = "next_question", !.session = s,
                                   !.username = current_user[s],
                                   !.practice = FALSE, !.result = q,
                                   !.today = today]
    /\ event' = [event EXCEPT ![s] = "-"]
    /\ UNCHANGED <<users, questions, next_id, today, current_user,
                   eval_state, current_question_data, local>>

\* show_evaluation_page: q_id is None, so
\* q_id = get_next_question_for_user(current_user); then the caught-up branch
Select(s) ==
    /\ pc[s] = "select"
    /\ \E q \in get_next_question_for_user(current_user[s], FALSE) :
         /\ current_question_id' = [current_question_id EXCEPT ![s] = q]
         /\ pc' = [pc EXCEPT ![s] =
                      IF q # None THEN "load"
                      ELSE IF event[s] = "practice" THEN "practice"
                      ELSE "idle"]
         /\ call' = [NoCall EXCEPT !.op = "next_question", !.session = s,
                                   !.username = current_user[s],
                                   !.practice = FALSE, !.result = q,
                                   !.today = today]
    /\ event' = [event EXCEPT ![s] = "-"]
    /\ UNCHANGED <<store, current_user, eval_state, current_question_data,
                   local>>

\* practice_q_id = get_next_question_for_user(current_user, practice_mode=True)
Practice(s) ==
    /\ pc[s] = "practice"
    /\ \E q \in get_next_question_for_user(current_user[s], TRUE) :
         /\ current_question_id' = [current_question_id EXCEPT ![s] = q]
         /\ pc' = [pc EXCEPT ![s] = IF q # None THEN "load" ELSE "idle"]
         /\ call' = [NoCall EXCEPT !.op = "next_question", !.session = s,
                                   !.username = current_user[s],
                                   !.practice = TRUE, !.result = q,
                                   !.today = today]
    /\ UNCHANGED <<store, current_user, eval_state, current_question_data,
                   event, local>>

\* eval_form "Responder" pressed: the script reruns with q_id already set
Submit(s) ==
    /\ current_user[s] # NoUser
    /\ pc[s] = "idle"
    /\ eval_state[s] = "showing_question"
    /\ current_question_id[s] # None
    /\ event' = [event EXCEPT ![s] = "submit"]
    /\ pc' = [pc EXCEPT ![s] = "load"]
    /\ call' = NoCall
    /\ UNCHANGED <<store, current_user, eval_state, current_question_id,
                   current_question_data, local>>

\* variant: the page goes on without checking that the row was found
LoadUnchecked(s) ==
    /\ pc[s] = "load"
    /\ current_question_data' =
         [current_question_data EXCEPT ![s] = current_question_id[s]]
    /\ eval_state' = [eval_state EXCEPT ![s] =
         IF event[s] = "submit" THEN "showing_feedback"
         ELSE "showing_question"]
    /\ pc' = [pc EXCEPT ![s] = "idle"]
    /\ call' = NoCall
    /\ event' = [event EXCEPT ![s] = "-"]
    /\ UNCHANGED <<store, current_user, current_question_id, local>>

\* SELECT * FROM questions WHERE id = ? ; not found: reset and rerun;
\* found: current_question_data = pregunta, and on submit show the feedback
Load(s) ==
    /\ pc[s] = "load"
    /\ IF current_question_id[s] \notin questions
       THEN /\ reset_evaluation_state(s)
            /\ pc' = [pc EXCEPT ![s] = "select"]
            /\ call' = [NoCall EXCEPT !.op = "not_found", !.session = s,
                          !.question_id = current_question_id[s]]
       ELSE /\ current_question_data' =
                 [current_question_data EXCEPT ![s] = current_question_id[s]]
            /\ eval_state' = [eval_state EXCEPT ![s] =
                 IF event[s] = "submit" THEN "showing_feedback"
                 ELSE "showing_question"]
            /\ pc' = [pc EXCEPT ![s] = "idle"]
            /\ call' = NoCall
            /\ UNCHANGED current_question_id
    /\ event' = [event EXCEPT ![s] = "-"]
    /\ UNCHANGED <<store, current_user, local>>

\* a difficulty button: update_srs(current_user, pregunta['id'], d), up to
\* progress = cursor.fetchone(); today = datetime.date.today()
UpdateSrsSelect(s) ==
    /\ current_user[s] # NoUser
    /\ pc[s] = "idle"
    /\ eval_state[s] = "showing_feedback"
    /\ SumReviews(progress) + InFlight < MaxReviews
    /\ local' = [local EXCEPT ![s] =
         [progress |-> SelectProgress(current_user[s],
                                      current_question_data[s]),
          today |-> today]]
    /\ pc' = [pc EXCEPT ![s] = "write"]
    /\ call' = NoCall
    /\ UNCHANGED <<store, current_user, eval_state, current_question_id,
                   current_question_data, event>>

\* update_srs from the interval arithmetic to conn.commit(), then
\* reset_evaluation_state(); st.rerun()
UpdateSrsWrite(s, d) ==
    LET u == current_user[s]
        q == current_question_data[s]
        new == NewRow(u, q, local[s].progress, d, local[s].today)
    IN /\ pc[s] = "write"
       /\ progress' = Upsert(progress, new)
       /\ reset_evaluation_state(s)
       /\ pc' = [pc EXCEPT ![s] = "select"]
       /\ local' = [local EXCEPT ![s] = NoLocal]
       /\ call' = [NoCall EXCEPT !.op = "update_srs", !.session = s,
                     !.username = u, !.question_id = q,
                     !.difficulty = d,
                     !.read = local[s].progress,
                     !.persisted = SelectProgress(u, q),
                     !.after = new, !.today = local[s].today]
       /\ UNCHANGED <<users, questions, next_id, today, current_user, event>>

\* variant: the failing write leaves a row behind
UpdateSrsFailPartial(s) ==
    LET u == current_user[s]
        q == current_question_data[s]
    IN /\ pc[s] = "write"
       /\ progress' = Upsert(progress, NewRow(u, q, local[s].progress,
                                              "dificil", local[s].today))
       /\ pc' = [pc EXCEPT ![s] = "idle"]
       /\ local' = [local EXCEPT ![s] = NoLocal]
       /\ call' = [NoCall EXCEPT !.op = "update_srs_failed", !.session = s,
                     !.username = u, !.question_id = q,
                     !.persisted = SelectProgress(u, q)]
       /\ UNCHANGED <<users, questions, next_id, today, current_user,
                      eval_state, current_question_id,
                      current_question_data, event>>

\* update_srs when conn.execute(INSERT ...) or conn.commit() raises
\* sqlite3.Error: the statement and its transaction leave no row written,
\* update_srs has no except clause, so the exception leaves the button's
\* branch before reset_evaluation_state() and the run ends
UpdateSrsFail(s) ==
    LET u == current_user[s]
        q == current_question_data[s]
    IN /\ pc[s] = "write"
       /\ pc' = [pc EXCEPT ![s] = "idle"]
       /\ local' = [local EXCEPT ![s] = NoLocal]
       /\ call' = [NoCall EXCEPT !.op = "update_srs_failed", !.session = s,
                     !.username = u, !.question_id = q,
                     !.persisted = SelectProgress(u, q)]
       /\ UNCHANGED <<store, current_user, eval_state, current_question_id,
                      current_question_data, event>>

\* what a logged-in session on the evaluation page can do
EvalStep(s) ==
    \/ Logout(s)
    \/ NavEvaluacion(s)
    \/ ClickPractice(s)
    \/ Select(s)
    \/ Practice(s)
    \/ Submit(s)
    \/ Load(s)
    \/ UpdateSrsSelect(s)
    \/ \E d \in ValidDifficulties : UpdateSrsWrite(s, d)
    \/ UpdateSrsFail(s)

\* what a session can do
SessionStep(s) ==
    \/ \E u \in UserNames : Login(s, u)
    \/ EvalStep(s)

\* One session answering, while questions are authored and deleted from
\* other pages and the days pass.  Only the built-in account exists.
Next ==
    \/ CreateQuestion
    \/ \E q \in QuestionIds : DeleteQuestion(q)
    \/ Tick
    \/ SessionStep("s1")

Spec == Init /\ [][Next]_vars

----------------------------------------------------------------------------
(* Two sessions answering at the same time, within one day, while users    *)
(* and questions are deleted.  The store starts where registration and     *)
(* authoring have left it: "ana" is registered, question 1 is the only     *)
(* question and the id counter is used up.                                 *)

InitConc ==
    /\ users = [u \in UserNames |->
                  IF u = ADMIN_USER_DEFAULT THEN "admin" ELSE "user"]
    /\ questions = {1}
    /\ next_id = MaxQuestionId + 1
    /\ progress = {}
    /\ today = 0
    /\ current_user = [s \in Sessions |-> NoUser]
    /\ eval_state = [s \in Sessions |-> "showing_question"]
    /\ current_question_id = [s \in Sessions |-> None]
    /\ current_question_data = [s \in Sessions |-> None]
    /\ pc = [s \in Sessions |-> "idle"]
    /\ event = [s \in Sessions |-> "-"]
    /\ local = [s \in Sessions |-> NoLocal]
    /\ call = NoCall

NextConc ==
    \/ \E s \in Sessions : SessionStep(s)
    \/ \E u \in UserNames : DeleteUser(u)
    \/ \E q \in QuestionIds : DeleteQuestion(q)

SpecConc == InitConc /\ [][NextConc]_vars

----------------------------------------------------------------------------
(* Two users answering at the same time: session s1 is used by "admin",    *)
(* session s2 by "ana", on the store of InitConc.                          *)

NextTwoUsers ==
    \/ Login("s1", "admin")
    \/ Login("s2", "ana")
    \/ \E s \in Sessions : EvalStep(s)
    \/ \E q \in QuestionIds : DeleteQuestion(q)

SpecTwoUsers == InitConc /\ [][NextTwoUsers]_vars

----------------------------------------------------------------------------
(* The core functions called directly, one call at a time, with arguments  *)
(* of the caller's choosing (as a test of the functions would).            *)

\* get_next_question_for_user(username, practice_mode)
ApiNextQuestion(u, practice_mode) ==
    /\ \E q \in get_next_question_for_user(u, practice_mode) :
         call' = [NoCall EXCEPT !.op = "next_question", !.session = "api",
                                !.username = u, !.practice = practice_mode,
                                !.result = q, !.today = today]
    /\ UNCHANGED <<store, session>>

\* update_srs(username, question_id, difficulty), run to completion
ApiUpdateSrs(u, q, d) ==
    LET row == SelectProgress(u, q)
        new == NewRow(u, q, row, d, today)
    IN /\ SumReviews(Upsert(progress, new)) <= MaxReviews
       /\ progress' = Upsert(progress, new)
       /\ call' = [NoCall EXCEPT !.op = "update_srs", !.session = "api",
                     !.username = u, !.question_id = q, !.difficulty = d,
                     !.read = row, !.persisted = row, !.after = new,
                     !.today = today]
       /\ UNCHANGED <<users, questions, next_id, today, session>>

NextApi ==
    \/ \E u \in UserNames, m \in BOOLEAN : ApiNextQuestion(u, m)
    \/ \E u \in UserNames, q \in QuestionIds, d \in AnyDifficulty :
         ApiUpdateSrs(u, q, d)
    \/ \E u \in UserNames : Register(u)
    \/ \E u \in UserNames : delete_user_from_db(u)

SpecApi == Init /\ [][NextApi]_vars

----------------------------------------------------------------------------
(* One session on the evaluation page during one day: the question set is  *)
(* fixed, the date does not change, and the user keeps answering whatever  *)
(* the page shows.  Some pairs may hold the row of a first, hard answer of *)
(* an earlier day, which is due by now.                                    *)

\* rows update_srs wrote on an earlier day for a first answer "dificil"
OldRecords(day) ==
    {[username |-> u, question_id |-> q, due_date |-> d, interval |-> 1,
      aciertos |-> 0, fallos |-> 1] :
        u \in UserNames, q \in QuestionIds, d \in 0..day}

InitSameDay ==
    /\ users = [u \in UserNames |->
                  IF u = ADMIN_USER_DEFAULT THEN "admin" ELSE "user"]
    /\ questions \in SUBSET QuestionIds
    /\ next_id = MaxQuestionId + 1
    /\ today \in Days
    /\ progress \in SUBSET OldRecords(today)
    /\ \A r \in progress : r.question_id \in questions
    /\ \A r1, r2 \in progress :
         (r1.username = r2.username /\ r1.question_id = r2.question_id)
         => r1 = r2
    /\ Cardinality(progress) + Cardinality(questions) <= MaxReviews
    /\ current_user = [s \in Sessions |-> NoUser]
    /\ eval_state = [s \in Sessions |-> "showing_question"]
    /\ current_question_id = [s \in Sessions |-> None]
    /\ current_question_data = [s \in Sessions |-> None]
    /\ pc = [s \in Sessions |-> "idle"]
    /\ event = [s \in Sessions |-> "-"]
    /\ local = [s \in Sessions |-> NoLocal]
    /\ call = NoCall

NextSameDay ==
    \/ \E u \in UserNames : Login("s1", u)
    \/ Select("s1")
    \/ Load("s1")
    \/ Submit("s1")
    \/ UpdateSrsSelect("s1")
    \/ \E d \in ValidDifficulties : UpdateSrsWrite("s1", d)

\* every run of the script ends, and the user presses the next button
SpecSameDay == InitSameDay /\ [][NextSameDay]_vars /\ WF_vars(NextSameDay)

----------------------------------------------------------------------------
(* Vocabulary of the specification, stated on the store and on the call    *)
(* that produced the current state.                                        *)

\* review records of a user that are due on the current date
DueRecords(u) == {r \in progress : r.username = u /\ r.due_date <= today}

\* questions for which a user has no review record
UnseenQuestions(u) ==
    {q \in questions : \A r \in progress :
                          ~ (r.username = u /\ r.question_id = q)}

\* the review records kept for a pair
RecordsOf(u, q) == {r \in progress : r.username = u /\ r.question_id = q}

\* the state an answer starts from: the record, or interval 1 and no answers
StartOf(row) ==
    IF row = NoRow THEN [interval |-> 1, correct |-> 0, incorrect |-> 0]
    ELSE [interval |-> row.interval, correct |-> row.aciertos,
          incorrect |-> row.fallos]

\* the update table of the Review Updater
TableOf(st, d) ==
    CASE d = "facil" -> [interval |-> st.interval * 2 + 7,
                         correct |-> st.correct + 1,
                         incorrect |-> st.incorrect]
      [] d = "medio" -> [interval |-> st.interval + 3,
                         correct |-> st.correct + 1,
                         incorrect |-> st.incorrect]
      [] d = "dificil" -> [interval |-> 1, correct |-> st.correct,
                           incorrect |-> st.incorrect + 1]

NextQuestionCalled == call.op = "next_question"
RecordAnswerCalled == call.op = "update_srs"

----------------------------------------------------------------------------
\* C1: a user with at least one due review record and at least one unseen
\* question gets from next_question(user, false) the question of one of the
\* due records, never an unseen question.
C1_PriorityOrdering ==
    (/\ NextQuestionCalled
     /\ ~ call.practice
     /\ DueRecords(call.username) # {}
     /\ UnseenQuestions(call.username) # {})
    => /\ call.result \in {r.question_id : r \in DueRecords(call.username)}
       /\ call.result \notin UnseenQuestions(call.username)

\* C2: record_answer starts from the record it finds (or interval 1, no
\* answers), applies the table row of the difficulty, sets the due date to
\* the current date plus the new interval and persists exactly that record.
C2_UpdateRule ==
    RecordAnswerCalled =>
      LET new == TableOf(StartOf(call.read), call.difficulty)
      IN /\ call.difficulty \in ValidDifficulties
         /\ RecordsOf(call.username, call.question_id) =
              {[username |-> call.username,
                question_id |-> call.question_id,
                due_date |-> call.today + new.interval,
                interval |-> new.interval,
                aciertos |-> new.correct,
                fallos |-> new.incorrect]}

C2_Witness ==
    /\ RecordAnswerCalled
    /\ call.read # NoRow
    /\ call.difficulty = "facil"
    /\ call.read.interval > 1

\* C3: two overlapping record_answer calls for one (username, question_id)
\* leave the record that running them one after the other, in one of the
\* two orders, would leave: two more answers counted, the interval built on
\* the other call's interval.
C3_AtomicReadModifyWrite ==
    [][(/\ call.op = "update_srs"
        /\ call'.op = "update_srs"
        /\ call'.session # call.session
        /\ call'.username = call.username
        /\ call'.question_id = call.question_id)
       => LET base == StartOf(call.persisted)
              ab == TableOf(TableOf(base, call.difficulty), call'.difficulty)
              ba == TableOf(TableOf(base, call'.difficulty), call.difficulty)
              final == StartOf(call'.after)
          IN final \in {ab, ba}]_vars

\* C4: record_answer with a difficulty outside {easy, medium, hard} leaves
\* the store as it was: no record inserted, an existing record unchanged.
C4_InvalidDifficulty ==
    (RecordAnswerCalled /\ call.difficulty \notin ValidDifficulties)
    => RecordsOf(call.username, call.question_id) =
         (IF call.persisted = NoRow THEN {} ELSE {call.persisted})

\* C5: record_answer for a question id that is not in the question set
\* writes no review record for it.
C5_NotFound ==
    (RecordAnswerCalled /\ call.question_id \notin questions)
    => RecordsOf(call.username, call.question_id) =
         (IF call.persisted = NoRow THEN {} ELSE {call.persisted})

\* C6: right after a question is deleted no review record refers to it.
C6_CascadingDelete ==
    call.op = "delete_question"
    => \A r \in progress : r.question_id # call.question_id

\* C7: the store never holds two review records for one (username,
\* question_id); an answer for a pair that has a record replaces it.
C7_Uniqueness ==
    /\ \A r1, r2 \in progress :
         (r1.username = r2.username /\ r1.question_id = r2.question_id)
         => r1 = r2
    /\ RecordAnswerCalled
       => RecordsOf(call.username, call.question_id) = {call.after}

C7_Witness ==
    /\ RecordAnswerCalled
    /\ call.persisted # NoRow
    /\ call.after # call.persisted
    /\ Cardinality(RecordsOf(call.username, call.question_id)) = 1

\* C8: of two consecutive record_answer calls for one pair the second
\* starts from what the first persisted; two easy answers on a pair
\* without a record leave correct 2, incorrect 0, interval 25.
C8_UpsertLaw ==
    [][(/\ call.op = "update_srs"
        /\ call'.op = "update_srs"
        /\ call'.username = call.username
        /\ call'.question_id = call.question_id
        /\ call.difficulty \in ValidDifficulties
        /\ call'.difficulty \in ValidDifficulties)
       => /\ StartOf(call'.after) =
               TableOf(StartOf(call.after), call'.difficulty)
          /\ (/\ call.persisted = NoRow
              /\ call.difficulty = "facil"
              /\ call'.difficulty = "facil")
             => /\ call'.after.aciertos = 2
                /\ call'.after.fallos = 0
                /\ call'.after.interval = 25
                /\ call'.after \in progress']_vars

C8_Witness ==
    /\ RecordAnswerCalled
    /\ call.difficulty = "facil"
    /\ call.read # NoRow
    /\ call.read.interval = 9
    /\ call.after.interval = 25
    /\ call.after.aciertos = 2

\* C9: a next_question call, in either mode, changes neither the question
\* set nor any review record.
C9_SchedulerReadOnly ==
    [][call'.op = "next_question"
       => /\ questions' = questions
          /\ progress' = progress
          /\ users' = users
          /\ next_id' = next_id]_vars

C9_Witness ==
    /\ NextQuestionCalled
    /\ call.result # None
    /\ progress # {}

\* C10: a user with no due review record and no unseen question gets none
\* from next_question(user, false).
C10_AllCaughtUp ==
    (/\ NextQuestionCalled
     /\ ~ call.practice
     /\ DueRecords(call.username) = {}
     /\ UnseenQuestions(call.username) = {})
    => call.result = None

C10_Witness ==
    /\ NextQuestionCalled
    /\ ~ call.practice
    /\ DueRecords(call.username) = {}
    /\ UnseenQuestions(call.username) = {}
    /\ \E r \in progress : /\ r.username = call.username
                           /\ r.question_id \in questions


----------------------------------------------------------------------------
\* the review records of a user
RecordsOfUser(u) == {r \in progress : r.username = u}

\* a record written today by a hard answer on a pair without a record
HardToday(r) ==
    /\ r.interval = 1
    /\ r.aciertos = 0
    /\ r.fallos = 1
    /\ r.due_date = today + 1

\* C11: a user without records and with the question set {Q1} gets Q1 from
\* next_question(u, false); record_answer(u, Q1, hard) leaves interval 1 and
\* due date today + 1; a next_question(u, false) on the day of that answer
\* returns none when there is no unseen question and an unseen one otherwise.
C11_FreshUserScenario ==
    /\ (/\ NextQuestionCalled
        /\ ~ call.practice
        /\ RecordsOfUser(call.username) = {}
        /\ Cardinality(questions) = 1)
       => call.result \in questions
    /\ (/\ RecordAnswerCalled
        /\ call.difficulty = "dificil"
        /\ call.read = NoRow)
       => /\ call.after.interval = 1
          /\ call.after.due_date = call.today + 1
          /\ call.after \in progress
    /\ (/\ NextQuestionCalled
        /\ ~ call.practice
        /\ RecordsOfUser(call.username) # {}
        /\ \A r \in RecordsOfUser(call.username) : HardToday(r))
       => IF UnseenQuestions(call.username) = {}
          THEN call.result = None
          ELSE call.result \in UnseenQuestions(call.username)

C11_Witness ==
    /\ NextQuestionCalled
    /\ ~ call.practice
    /\ questions = {1}
    /\ Cardinality(RecordsOfUser(call.username)) = 1
    /\ \A r \in RecordsOfUser(call.username) :
         HardToday(r) /\ r.question_id = 1
    /\ call.result = None

\* C12: next_question(user, true) returns a member of the question set
\* whenever the set is not empty, whatever the user's review records, and
\* none only when the set is empty.
C12_PracticeMode ==
    (NextQuestionCalled /\ call.practice)
    => IF questions = {} THEN call.result = None
       ELSE call.result \in questions

C12_Witness ==
    /\ NextQuestionCalled
    /\ call.practice
    /\ call.result # None
    /\ \E r \in RecordsOfUser(call.username) :
         r.question_id = call.result /\ r.due_date > today


----------------------------------------------------------------------------
\* C13: when different users answer concurrently, every record_answer
\* builds on the record persisted for its own pair (as if the user's calls
\* had run alone, in order), and changes no record of another user.
C13_NoLostUpdateAcrossUsers ==
    [][call'.op = "update_srs"
       => /\ call'.read = call'.persisted
          /\ \A r \in progress :
               r.username # call'.username => r \in progress'
          /\ \A r \in progress' :
               r.username # call'.username => r \in progress
          /\ call'.after \in progress']_vars

C13_Witness ==
    /\ RecordAnswerCalled
    /\ call.after \in progress
    /\ \E s \in Sessions : /\ pc[s] = "write"
                           /\ current_user[s] # call.username
                           /\ current_question_data[s] = call.question_id


----------------------------------------------------------------------------
\* C14: in every state, every review record refers to a user and to a
\* question that exist, so that none outlives or follows the deletion of
\* its user or of its question.
C14_ReferentialIntegrity ==
    \A r \in progress : /\ r.username \in DOMAIN users
                         /\ r.question_id \in questions


----------------------------------------------------------------------------
\* C15: when the question a session holds is gone at the time the page
\* loads it, the session reports "not found", clears its current question
\* and stands again before the call of the Scheduler, in the awaiting-answer
\* state; the step writes no review record.
C15_DeletionRaceTolerated ==
    [][\A s \in Sessions :
         (/\ pc[s] = "load"
          /\ pc'[s] # "load"
          /\ current_question_id[s] \notin questions)
         => /\ call'.op = "not_found"
            /\ call'.session = s
            /\ call'.question_id = current_question_id[s]
            /\ current_question_id'[s] = None
            /\ current_question_data'[s] = None
            /\ eval_state'[s] = "showing_question"
            /\ pc'[s] = "select"
            /\ progress' = progress]_vars

C15_Witness ==
    /\ call.op = "not_found"
    /\ call.question_id \notin questions
    /\ \E s \in Sessions : /\ call.session = s
                           /\ pc[s] = "select"
                           /\ current_question_id[s] = None


----------------------------------------------------------------------------
\* C16: when the store fails during the write of update_srs, the review
\* record of the answered (user, question) pair is what it was before the
\* call, no other record changes, and the failure reaches the caller: the
\* statements after the call are not run, so the session still shows the
\* feedback of the same question.
C16_AllOrNothingWrite ==
    [][call'.op = "update_srs_failed"
       => /\ progress' = progress
          /\ SelectProgress(call'.username, call'.question_id)
               = call'.persisted
          /\ \A s \in Sessions :
               call'.session = s
               => /\ pc[s] = "write"
                  /\ eval_state'[s] = "showing_feedback"
                  /\ current_question_data'[s] = call'.question_id
                  /\ current_question_id'[s] = current_question_id[s]]_vars

C16_Witness ==
    /\ call.op = "update_srs_failed"
    /\ call.persisted # NoRow
    /\ call.persisted \in progress


----------------------------------------------------------------------------
\* C17: when questions exist and the user has no due review record and no
\* unseen question, next_question gives an outcome other than the one it
\* gives on an empty question set.
C17_EmptyCorpusDistinguishable ==
    (/\ NextQuestionCalled
     /\ questions # {}
     /\ DueRecords(call.username) = {}
     /\ UnseenQuestions(call.username) = {})
    => call.result \notin RandomRow({})


----------------------------------------------------------------------------
\* C18: every persisted review record has an interval of at least 1; an
\* easy or medium answer leaves an interval strictly greater than the one
\* it started from (that of the existing record, or 1 for a first answer),
\* and a hard answer leaves the interval 1.
C18_IntervalLowerBound ==
    /\ \A r \in progress : r.interval >= 1
    /\ RecordAnswerCalled
       => /\ call.difficulty \in {"facil", "medio"}
             => call.after.interval > StartOf(call.read).interval
          /\ call.difficulty = "dificil" => call.after.interval = 1
          /\ call.after.interval >= 1

C18_Witness ==
    /\ RecordAnswerCalled
    /\ call.difficulty = "dificil"
    /\ call.read # NoRow
    /\ call.read.interval > 1
    /\ call.after \in progress


----------------------------------------------------------------------------
\* C19: a session enters showing-feedback only from awaiting-answer, by
\* answering the question it was shown; update_srs is issued only from
\* showing-feedback, by the session's user and for the shown question, and
\* it leaves the session awaiting an answer with no current question, before
\* the next call of the Scheduler, so that a second update_srs needs a new
\* question to be shown and answered. A question obtained in practice mode
\* takes the same path.
C19_SessionFlow ==
    [][\A s \in Sessions :
         /\ (eval_state[s] # "showing_feedback"
             /\ eval_state'[s] = "showing_feedback")
            => /\ eval_state[s] = "showing_question"
               /\ current_question_id[s] \in questions
               /\ current_question_id'[s] = current_question_id[s]
               /\ current_question_data'[s] = current_question_id[s]
         /\ (call'.op = "update_srs" /\ call'.session = s)
            => /\ eval_state[s] = "showing_feedback"
               /\ call'.username = current_user[s]
               /\ call'.question_id = current_question_id[s]
               /\ call'.question_id = current_question_data[s]
               /\ call'.question_id # None
               /\ call'.after \in progress'
               /\ eval_state'[s] = "showing_question"
               /\ current_question_id'[s] = None
               /\ pc'[s] = "select"]_vars

C19_Witness ==
    /\ RecordAnswerCalled
    /\ call.read # NoRow
    /\ call.read.due_date > call.today
    /\ call.after \in progress
    /\ call.after # call.read
    /\ \E s \in Sessions : /\ call.session = s
                           /\ pc[s] = "select"
                           /\ current_question_id[s] = None


----------------------------------------------------------------------------
\* C20: in every state exactly one user has the role admin and it is the
\* user named "admin"; registering the name "admin" is refused and changes
\* nothing, every user a registration creates has the role user, and
\* delete_user("admin") fails and leaves users and review records unchanged.
C20_SingleReservedAdmin ==
    /\ [](/\ ADMIN_USER_DEFAULT \in DOMAIN users
          /\ \A u \in DOMAIN users :
               users[u] = "admin" <=> u = ADMIN_USER_DEFAULT)
    /\ [][/\ call'.op = "register"
             => /\ \A u \in DOMAIN users' \ DOMAIN users :
                     /\ u = call'.username
                     /\ users'[u] = "user"
                /\ \A u \in DOMAIN users :
                     u \in DOMAIN users' /\ users'[u] = users[u]
                /\ progress' = progress
                /\ call'.username = ADMIN_USER_DEFAULT
                   => users' = users /\ call'.result = None
          /\ (call'.op = "delete_user"
              /\ call'.username = ADMIN_USER_DEFAULT)
             => /\ users' = users
                /\ progress' = progress
                /\ call'.result = None]_vars

C20_Witness ==
    /\ call.op = "delete_user"
    /\ call.username = ADMIN_USER_DEFAULT
    /\ call.result = None
    /\ users[ADMIN_USER_DEFAULT] = "admin"
    /\ "ana" \in DOMAIN users
    /\ \E r \in progress : r.username = ADMIN_USER_DEFAULT


----------------------------------------------------------------------------
\* C22: every id next_question(u, false) returns is the id of a question
\* that exists at the time of the call, and u has for it either a review
\* record due on or before the current date or no review record; it is
\* never a question whose record for u is due in the future, and never an
\* id found only in a review record whose question is gone.
C22_SchedulerSoundness ==
    (/\ NextQuestionCalled
     /\ ~ call.practice
     /\ call.result # None)
    => /\ call.result \in questions
       /\ \/ RecordsOf(call.username, call.result) = {}
          \/ \E r \in RecordsOf(call.username, call.result) :
               r.due_date <= call.today
       /\ \A r \in RecordsOf(call.username, call.result) :
            r.due_date <= call.today

C22_Witness ==
    /\ NextQuestionCalled
    /\ ~ call.practice
    /\ call.result \in questions
    /\ \E r \in RecordsOfUser(call.username) :
         /\ r.question_id \notin questions
         /\ r.due_date <= call.today


----------------------------------------------------------------------------
\* C23: every completed update_srs(u, q, d) with a valid difficulty adds
\* exactly one to correct-count + incorrect-count of the record of (u, q)
\* as it stood in the store (none counting as zero answers), so that the
\* sum is the number of such calls since the record was created; neither
\* count decreases; no record of another pair changes, and the question set
\* does not change.
C23_AnswerAccountingAndFrame ==
    [][call'.op = "update_srs"
       => /\ call'.difficulty \in ValidDifficulties
             => call'.after.aciertos + call'.after.fallos
                  = call'.persisted.aciertos + call'.persisted.fallos + 1
          /\ call'.after.aciertos >= call'.persisted.aciertos
          /\ call'.after.fallos >= call'.persisted.fallos
          /\ {r \in progress' : /\ r.username = call'.username
                                 /\ r.question_id = call'.question_id}
               = {call'.after}
          /\ \A r \in progress \cup progress' :
               (r.username # call'.username
                \/ r.question_id # call'.question_id)
               => (r \in progress /\ r \in progress')
          /\ questions' = questions]_vars


----------------------------------------------------------------------------
\* the questions standard mode can offer a user: those with a due record
\* and those without a record
Offerable(u) ==
    {q \in questions :
       \/ RecordsOf(u, q) = {}
       \/ \E r \in RecordsOf(u, q) : r.due_date <= today}

\* C21: with the date and the question set fixed, every update_srs sets the
\* due date after the current date, so the answered question leaves the
\* questions standard mode can offer the user and none comes back to them
\* that day: no question is offered twice.  A session that keeps taking
\* next_question(u, false) and answering eventually gets none.
C21_SameDayTermination ==
    /\ [][/\ \A u \in UserNames : Offerable(u)' \subseteq Offerable(u)
          /\ call'.op = "update_srs"
             => /\ call'.after.due_date > today'
                /\ \A u \in UserNames, q \in QuestionIds :
                     (call'.username = u /\ call'.question_id = q)
                     => /\ q \in Offerable(u)
                        /\ q \notin Offerable(u)']_vars
    /\ <>(/\ NextQuestionCalled
          /\ ~ call.practice
          /\ call.result = None
          /\ Offerable(call.username) = {})

C21_Witness ==
    /\ NextQuestionCalled
    /\ ~ call.practice
    /\ call.result = None
    /\ Cardinality(questions) >= 2
    /\ \A q \in questions :
         \E r \in RecordsOf(call.username, q) : r.due_date > today

====
